---- MODULE Spec2Model ----
(***************************************************************************)
(* Model of the term-definition plugin (src/src/main.ts): the command       *)
(* handleTermDefinition with its helpers getDefinitionFromLLM,              *)
(* createDefinitionNote, getTargetFolder, ensureFolderExists and            *)
(* createSmartLink, and the settings tab's operations on the settings.      *)
(*                                                                          *)
(* Strings are sequences of one-character strings, so that startsWith,      *)
(* split("/"), template concatenation and the regular expression of         *)
(* createSmartLink are computed character by character.                     *)
(***************************************************************************)
EXTENDS Integers, Sequences, FiniteSets, TLC

VARIABLES
    settings,     \* this.settings: folderMappings and defaultGlossaryPath
    activeFile,   \* app.workspace.getActiveFile(): a set holding zero or one file
    editor,       \* the editor's current selection (editor.getSelection())
    folders,      \* the vault: the set of folder paths that exist
    files,        \* the vault: the set of [path, content] of the files that exist
    runs,         \* each invocation of handleTermDefinition: its position and locals
    createLog,    \* the vault.create calls so far, in the order they took effect
    link,         \* createSmartLink applied on its own: arguments and result
    route         \* getTargetFolder applied on its own: argument and result

vars == <<settings, activeFile, editor, folders, files, runs, createLog, link, route>>

(***************************************************************************)
(* Bounds of the model.                                                     *)
(***************************************************************************)
MaxTextLen == 4
MaxTermLen == 2
MaxMappings == 2

\* every sequence over S of length at most n
SeqsUpTo(S, n) == UNION {[1..k -> S] : k \in 0..n}

(***************************************************************************)
(* JavaScript strings.                                                      *)
(***************************************************************************)
LowerLetters ==
    <<"a","b","c","d","e","f","g","h","i","j","k","l","m",
      "n","o","p","q","r","s","t","u","v","w","x","y","z">>
UpperLetters ==
    <<"A","B","C","D","E","F","G","H","I","J","K","L","M",
      "N","O","P","Q","R","S","T","U","V","W","X","Y","Z">>
Digits == {"0","1","2","3","4","5","6","7","8","9"}

\* \w of a regular expression without the u flag: [A-Za-z0-9_]
IsWordChar(c) ==
    \/ \E i \in 1..26 : c = LowerLetters[i] \/ c = UpperLetters[i]
    \/ c \in Digits
    \/ c = "_"

\* the canonical form of a character under the i flag (its upper case)
Canonicalize(c) ==
    IF \E i \in 1..26 : c = LowerLetters[i]
    THEN UpperLetters[CHOOSE i \in 1..26 : c = LowerLetters[i]]
    ELSE c

\* String.prototype.startsWith
StartsWith(s, prefix) ==
    /\ Len(prefix) <= Len(s)
    /\ \A i \in 1..Len(prefix) : s[i] = prefix[i]

\* the least index at which sub occurs in s, 0 when it does not (indexOf + 1)
IndexOf(s, sub) ==
    LET hits == {i \in 1..(Len(s) - Len(sub) + 1) :
                    \A j \in 1..Len(sub) : s[i + j - 1] = sub[j]}
    IN IF hits = {} THEN 0 ELSE CHOOSE i \in hits : \A j \in hits : i <= j

\* String.prototype.split("/"): the segments between the slashes
RECURSIVE SplitFrom(_, _)
SplitFrom(s, cur) ==
    IF s = <<>> THEN <<cur>>
    ELSE IF Head(s) = "/" THEN <<cur>> \o SplitFrom(Tail(s), <<>>)
    ELSE SplitFrom(Tail(s), Append(cur, Head(s)))

Split(s) == SplitFrom(s, <<>>)

(***************************************************************************)
(* JavaScript values that are a string or undefined (a field of the parsed  *)
(* response that is missing reads as undefined).                            *)
(***************************************************************************)
Str(s) == [isString |-> TRUE, str |-> s]
Undefined == [isString |-> FALSE, str |-> <<>>]

\* a value inside a template literal: `${v}`
TemplateString(v) ==
    IF v.isString THEN v.str ELSE <<"u","n","d","e","f","i","n","e","d">>

\* a value as an element of Array.prototype.join: undefined joins as ""
JoinString(v) == IF v.isString THEN v.str ELSE <<>>

(***************************************************************************)
(* createSmartLink (main.ts 200-204) and the RegExp it builds.              *)
(***************************************************************************)
\* the character class of line 201: . * + ? ^ $ { } ( ) | [ ] \
RegExpMetaChars ==
    {".", "*", "+", "?", "^", "$", "{", "}", "(", ")", "|", "[", "]", "\\"}

\* line 201: term.replace(/[.*+?^${}()|[\]\\]/g, "\\$&")
RECURSIVE EscapeTerm(_)
EscapeTerm(term) ==
    IF term = <<>> THEN <<>>
    ELSE (IF Head(term) \in RegExpMetaChars
          THEN <<"\\", Head(term)>>
          ELSE <<Head(term)>>) \o EscapeTerm(Tail(term))

(* new RegExp(pattern): the part of the pattern between the two \b, parsed  *)
(* into atoms. A backslash makes the next character a literal; an unescaped *)
(* "." matches any character and an unescaped "+" repeats the atom before   *)
(* it, and is a SyntaxError ("nothing to repeat") with no atom before it.   *)
(* The other operators do not occur in the alphabet of the model.           *)
RECURSIVE CompileFrom(_, _)
CompileFrom(p, atoms) ==
    IF p = <<>> THEN [ok |-> TRUE, atoms |-> atoms]
    ELSE IF Head(p) = "\\"
    THEN IF Len(p) < 2
         THEN [ok |-> FALSE, atoms |-> <<>>]
         ELSE CompileFrom(Tail(Tail(p)),
                  Append(atoms, [any |-> FALSE, ch |-> p[2], plus |-> FALSE]))
    ELSE IF Head(p) = "+"
    THEN IF atoms = <<>> \/ atoms[Len(atoms)].plus
         THEN [ok |-> FALSE, atoms |-> <<>>]
         ELSE CompileFrom(Tail(p),
                  [atoms EXCEPT ![Len(atoms)].plus = TRUE])
    ELSE IF Head(p) = "."
    THEN CompileFrom(Tail(p),
             Append(atoms, [any |-> TRUE, ch |-> ".", plus |-> FALSE]))
    ELSE CompileFrom(Tail(p),
             Append(atoms, [any |-> FALSE, ch |-> Head(p), plus |-> FALSE]))

Compile(p) == CompileFrom(p, <<>>)

\* one atom against one character, under the i flag
AtomMatches(atom, c) ==
    IF atom.any THEN c # "\n" ELSE Canonicalize(atom.ch) = Canonicalize(c)

\* \b at the gap before text[pos]: exactly one neighbour is a word character
IsWordBoundary(text, pos) ==
    LET left == pos > 1 /\ IsWordChar(text[pos - 1])
        right == pos <= Len(text) /\ IsWordChar(text[pos])
    IN left # right

\* how many characters from pos on the atom matches in a row
RECURSIVE RunLength(_, _, _)
RunLength(atom, text, pos) ==
    IF pos <= Len(text) /\ AtomMatches(atom, text[pos])
    THEN 1 + RunLength(atom, text, pos + 1)
    ELSE 0

(* The backtracking matcher: atoms k.. against text from pos, followed by   *)
(* the closing \b. The result is the position after the match, 0 for no     *)
(* match. A repeated atom is greedy: the longest run is tried first.        *)
RECURSIVE MatchFrom(_, _, _, _)
RECURSIVE MatchRepeat(_, _, _, _, _)
MatchFrom(atoms, k, text, pos) ==
    IF k > Len(atoms)
    THEN IF IsWordBoundary(text, pos) THEN pos ELSE 0
    ELSE IF atoms[k].plus
    THEN MatchRepeat(atoms, k, text, pos, RunLength(atoms[k], text, pos))
    ELSE IF pos <= Len(text) /\ AtomMatches(atoms[k], text[pos])
    THEN MatchFrom(atoms, k + 1, text, pos + 1)
    ELSE 0

MatchRepeat(atoms, k, text, pos, count) ==
    IF count < 1 THEN 0
    ELSE LET end == MatchFrom(atoms, k + 1, text, pos + count)
         IN IF end # 0 THEN end
            ELSE MatchRepeat(atoms, k, text, pos, count - 1)

\* the first match of \b<atoms>\b in text: [found, index, end)
RegExpExec(atoms, text) ==
    LET starts == {s \in 1..(Len(text) + 1) :
                      IsWordBoundary(text, s) /\ MatchFrom(atoms, 1, text, s) # 0}
    IN IF starts = {}
       THEN [found |-> FALSE, index |-> 0, end |-> 0]
       ELSE LET s == CHOOSE x \in starts : \A y \in starts : x <= y
            IN [found |-> TRUE, index |-> s, end |-> MatchFrom(atoms, 1, text, s)]

\* the replacer of line 203: (match) => `[[${term}|${match}]]`
LinkOf(term, match) == <<"[", "[">> \o term \o <<"|">> \o match \o <<"]", "]">>

(* createSmartLink(originalText, term): [threw, value]. term.replace on an  *)
(* undefined term is a TypeError, a pattern that does not compile is a      *)
(* SyntaxError; otherwise the first match, if any, is replaced.             *)
createSmartLink(originalText, term) ==
    IF ~term.isString THEN [threw |-> TRUE, value |-> <<>>]
    ELSE LET escapedTerm == EscapeTerm(term.str)
             regex == Compile(escapedTerm)
         IN IF ~regex.ok THEN [threw |-> TRUE, value |-> <<>>]
            ELSE LET m == RegExpExec(regex.atoms, originalText)
                 IN IF ~m.found
                    THEN [threw |-> FALSE, value |-> originalText]
                    ELSE [threw |-> FALSE,
                          value |-> SubSeq(originalText, 1, m.index - 1)
                                    \o LinkOf(term.str,
                                              SubSeq(originalText, m.index, m.end - 1))
                                    \o SubSeq(originalText, m.end, Len(originalText))]

(***************************************************************************)
(* The settings (main.ts 23-37) and getTargetFolder (main.ts 172-185).      *)
(***************************************************************************)
Glossary == <<"G","l","o","s","s","a","r","y">>

\* DEFAULT_SETTINGS: no mappings, defaultGlossaryPath "Glossary"
DEFAULT_SETTINGS == [folderMappings |-> <<>>, defaultGlossaryPath |-> Glossary]

\* a variant of the loop of lines 178-182 in which the last matching mapping wins
RECURSIVE ScanMappingsLastWins(_, _, _)
ScanMappingsLastWins(mappings, sourcePath, fallback) ==
    IF mappings = <<>> THEN fallback
    ELSE LET m == mappings[Len(mappings)]
         IN IF StartsWith(sourcePath, m.sourcePath)
            THEN m.targetPath
            ELSE ScanMappingsLastWins(SubSeq(mappings, 1, Len(mappings) - 1),
                                      sourcePath, fallback)

\* lines 178-184: the first mapping whose sourcePath the path starts with,
\* and the fallback when the loop ends without a return
RECURSIVE ScanMappings(_, _, _)
ScanMappings(mappings, sourcePath, fallback) ==
    IF mappings = <<>> THEN fallback
    ELSE IF StartsWith(sourcePath, Head(mappings).sourcePath)
    THEN Head(mappings).targetPath
    ELSE ScanMappings(Tail(mappings), sourcePath, fallback)

\* getTargetFolder(sourceFile) under the settings s; sourceFile is {} for null
TargetFolderUnder(s, sourceFile) ==
    IF sourceFile = {} THEN s.defaultGlossaryPath
    ELSE LET f == CHOOSE x \in sourceFile : TRUE
         IN ScanMappings(s.folderMappings, f.path, s.defaultGlossaryPath)

getTargetFolder(sourceFile) == TargetFolderUnder(settings, sourceFile)

(***************************************************************************)
(* The vault and the editor, as the plugin uses them.                       *)
(***************************************************************************)
Root == <<>>

FilePaths == {f.path : f \in files}

\* vault.adapter.exists(path): a folder or a file is there
Exists(path) == path \in folders \/ path \in FilePaths

\* the folder a path lies in: the path up to its last slash
ParentOf(path) ==
    LET slashes == {i \in 1..Len(path) : path[i] = "/"}
    IN IF slashes = {} THEN Root
       ELSE SubSeq(path, 1, (CHOOSE i \in slashes : \A j \in slashes : j <= i) - 1)

\* String.prototype.replace(pattern, replacement) with a string pattern:
\* the first occurrence only
ReplaceFirst(s, pattern, replacement) ==
    LET i == IndexOf(s, pattern)
    IN IF i = 0 THEN s
       ELSE SubSeq(s, 1, i - 1) \o replacement
            \o SubSeq(s, i + Len(pattern), Len(s))

\* `${definition}` of line 90: an object in a template literal
ObjectObject ==
    <<"[","o","b","j","e","c","t"," ","O","b","j","e","c","t","]">>

\* line 90: linkedText.replace(`${definition}`), the replacement undefined
ReplaceDefinition(linkedText) ==
    ReplaceFirst(linkedText, ObjectObject, TemplateString(Undefined))

(***************************************************************************)
(* The inputs of the model: selections, responses of the LLM, documents.    *)
(***************************************************************************)
TextGPU == <<"A"," ","G","P","U">>
TextNoMatch == <<"n","o">>
Selections == {<<>>, TextGPU, TextNoMatch}

TermGpu == <<"g","p","u">>
TermCpu == <<"c","p","u">>
DefOne == <<"d","1">>
DefTwo == <<"d","2">>

\* what JSON.parse returns for the payloads that parse to an object
ParsedObject(term, definition) == [term |-> term, definition |-> definition]

(* The responses of requestUrl: the request is rejected; the payload is not *)
(* JSON (JSON.parse throws); the payload is the JSON null; the payload is   *)
(* an object, with or without its fields.                                   *)
Responses ==
    {[kind |-> "reject", value |-> ParsedObject(Undefined, Undefined)],
     [kind |-> "invalid", value |-> ParsedObject(Undefined, Undefined)],
     [kind |-> "null", value |-> ParsedObject(Undefined, Undefined)]}
    \cup {[kind |-> "object", value |-> v] : v \in
            {ParsedObject(Undefined, Undefined),
             ParsedObject(Undefined, Str(DefOne)),
             ParsedObject(Str(TermGpu), Undefined),
             ParsedObject(Str(<<>>), Str(DefOne)),
             ParsedObject(Str(TermGpu), Str(<<>>)),
             ParsedObject(Str(TermGpu), Str(DefOne)),
             ParsedObject(Str(TermGpu), Str(DefTwo)),
             ParsedObject(Str(TermCpu), Str(DefOne))}}

\* the response is an object with a non-empty term and a non-empty definition
WellFormed(v) ==
    /\ v.term.isString /\ v.term.str # <<>>
    /\ v.definition.isString /\ v.definition.str # <<>>

DocA == [path |-> <<"P","/","a",".","m","d">>, basename |-> <<"a">>]
ActiveFiles == {{}, {DocA}}

PathAB == <<"A","/","B">>
MappedSettings ==
    [folderMappings |-> <<[sourcePath |-> <<"P">>, targetPath |-> PathAB]>>,
     defaultGlossaryPath |-> Glossary]

\* the settings loadSettings can produce: the defaults, or saved ones
LoadedSettings == {DEFAULT_SETTINGS, MappedSettings}

\* a variant of line 164 that names every note alike
NotePathFixedName(targetFolder, term) ==
    targetFolder \o <<"/">> \o <<"n","o","t","e",".","m","d">>

\* line 164: `${targetFolder}/${definition.term}.md`
NotePathOf(targetFolder, term) ==
    targetFolder \o <<"/">> \o TemplateString(term) \o <<".","m","d">>

OldContent == <<"o","l","d">>
\* the vault at start: empty, or with a note for "gpu" in the glossary
InitialVaults ==
    {[folders |-> {Root}, files |-> {}],
     [folders |-> {Root, Glossary},
      files |-> {[path |-> NotePathOf(Glossary, Str(TermGpu)),
                  content |-> OldContent]}]}

Runs == {1, 2}

(***************************************************************************)
(* One invocation of handleTermDefinition (main.ts 69-98). Its awaits are   *)
(* the places where other invocations and the user can act:                 *)
(*   awaitLLM           requestUrl, line 104                                *)
(*   awaitExists        vault.adapter.exists, line 193                      *)
(*   awaitCreateFolder  vault.createFolder, line 194                        *)
(*   awaitCreate        vault.create, line 167                              *)
(***************************************************************************)
IdleRun ==
    [pc |-> "idle",
     selectedText |-> <<>>,          \* line 70
     entryActiveFile |-> {},         \* the active file when the command was invoked
     entrySettings |-> DEFAULT_SETTINGS,   \* this.settings when it was invoked
     response |-> "",                \* the kind of response requestUrl settled with
     definition |-> ParsedObject(Undefined, Undefined),   \* line 78
     activeFile |-> {},              \* line 150
     readSettings |-> DEFAULT_SETTINGS,    \* this.settings as lines 174-184 read it
     targetFolder |-> <<>>,          \* line 151
     segs |-> <<>>,                  \* line 188: folders
     idx |-> 0,                      \* the position of the loop of line 191
     currentPath |-> <<>>,           \* line 189
     noteContent |-> <<>>,           \* line 157
     notePath |-> <<>>,              \* line 164
     httpCalls |-> 0,                \* calls of requestUrl
     notices |-> <<>>,               \* the messages of new Notice(...)
     createFolderCalls |-> <<>>,     \* the paths createFolder was called with
     createFolderDone |-> {},        \* the folders this run created
     createCalls |-> 0,              \* calls of vault.create
     created |-> FALSE,              \* vault.create succeeded
     replaceCalls |-> <<>>,          \* the calls of editor.replaceSelection
     outcome |-> "",                 \* how the invocation ended
     failure |-> ""]                 \* what was thrown into the catch of line 94

NoticeNoText == "No text selected"
NoticeNoDefinition == "Failed to get definition from API"
NoticeSuccess == "Term definition created successfully"
NoticeError == "Error creating term definition"

\* lines 94-97: the catch of handleTermDefinition
CatchError(rec, failure) ==
    [rec EXCEPT !.notices = Append(@, NoticeError),
                !.pc = "done", !.outcome = "Error", !.failure = failure]

\* lines 157-161: the note's content
NoteContentOf(definition, file) ==
    JoinString(definition.definition) \o <<"\n">> \o <<"\n">>
    \o (IF file = {} THEN <<>>
        ELSE <<"-"," ","S","o","u","r","c","e",":"," ","[","[">>
             \o (CHOOSE f \in file : TRUE).basename \o <<"]","]">>)

(* Line 196 and what follows it: the next turn of the loop of line 191 up   *)
(* to its call of exists, or, after the last folder, lines 157-167 up to    *)
(* the call of vault.create.                                                *)
NextSegment(rec) ==
    IF rec.idx < Len(rec.segs)
    THEN [rec EXCEPT !.idx = @ + 1,
                     !.currentPath = @ \o <<"/">> \o rec.segs[rec.idx + 1],
                     !.pc = "awaitExists"]
    ELSE [rec EXCEPT !.currentPath = @ \o <<"/">>,
                     !.noteContent = NoteContentOf(rec.definition, rec.activeFile),
                     !.notePath = NotePathOf(rec.targetFolder, rec.definition.term),
                     !.createCalls = @ + 1,
                     !.pc = "awaitCreate"]

\* a variant of lines 79-82 in which the catch of line 142 notifies as well
DefinitionFailedNotifiesTwice(rec, kind) ==
    [rec EXCEPT !.response = kind,
                !.notices = @ \o <<NoticeError, NoticeNoDefinition>>,
                !.pc = "done", !.outcome = "NoDefinition"]

\* lines 142-145 and 79-82: getDefinitionFromLLM returned null
DefinitionFailed(rec, kind) ==
    [rec EXCEPT !.response = kind,
                !.notices = Append(@, NoticeNoDefinition),
                !.pc = "done", !.outcome = "NoDefinition"]

\* a variant of lines 70-78 without the check of line 71
EntryWithoutCheck(rec, selectedText) ==
    [rec EXCEPT !.selectedText = selectedText,
                !.entryActiveFile = activeFile,
                !.entrySettings = settings,
                !.httpCalls = @ + 1,
                !.pc = "awaitLLM"]

\* lines 70-78 and 104, for the text getSelection returned
Entry(rec, selectedText) ==
    IF selectedText = <<>>
    THEN [rec EXCEPT !.selectedText = selectedText,
                     !.entryActiveFile = activeFile,
                     !.entrySettings = settings,
                     !.notices = Append(@, NoticeNoText),
                     !.pc = "done", !.outcome = "EmptySelection"]
    ELSE [rec EXCEPT !.selectedText = selectedText,
                     !.entryActiveFile = activeFile,
                     !.entrySettings = settings,
                     !.httpCalls = @ + 1,
                     !.pc = "awaitLLM"]

(* Lines 70-78 and 104: the command is invoked. An empty selection ends it  *)
(* with a notice; otherwise the request is sent.                            *)
Invoke(r) ==
    /\ runs[r].pc = "idle"
    /\ runs' = [runs EXCEPT ![r] = Entry(@, editor)]
    /\ UNCHANGED <<settings, activeFile, editor, folders, files, createLog, link, route>>

(* Lines 135-145, 79-84, 150-154 and 188-193: the request settles. A        *)
(* rejected request and a payload JSON.parse throws on end in the catch of  *)
(* line 142, which returns null; the JSON null is null as well: line 80.    *)
(* Any object goes on to createDefinitionNote, which reads the active file, *)
(* resolves the folder and starts ensureFolderExists.                       *)
LLMResponseFrom(r, responses) ==
    /\ runs[r].pc = "awaitLLM"
    /\ \E response \in responses :
        runs' = [runs EXCEPT ![r] =
            IF response.kind # "object"
            THEN DefinitionFailed(@, response.kind)
            ELSE LET targetFolder == getTargetFolder(activeFile)
                     segs == Split(targetFolder)
                 IN [@ EXCEPT !.response = response.kind,
                              !.definition = response.value,
                              !.activeFile = activeFile,
                              !.readSettings = settings,
                              !.targetFolder = targetFolder,
                              !.segs = segs,
                              !.idx = 1,
                              !.currentPath = segs[1],
                              !.pc = "awaitExists"]]
    /\ UNCHANGED <<settings, activeFile, editor, folders, files, createLog, link, route>>

LLMResponse(r) == LLMResponseFrom(r, Responses)

\* a variant of lines 193-195 that calls createFolder whatever exists answered
ExistsReturnAlwaysCreates(r) ==
    /\ runs[r].pc = "awaitExists"
    /\ runs' = [runs EXCEPT ![r] =
            [@ EXCEPT !.createFolderCalls = Append(@, runs[r].currentPath),
                      !.pc = "awaitCreateFolder"]]
    /\ UNCHANGED <<settings, activeFile, editor, folders, files, createLog, link, route>>

(* Lines 193-196: exists answers. An existing path goes to the next folder; *)
(* otherwise createFolder is called.                                        *)
ExistsReturn(r) ==
    /\ runs[r].pc = "awaitExists"
    /\ runs' = [runs EXCEPT ![r] =
            IF Exists(@.currentPath)
            THEN NextSegment(@)
            ELSE [@ EXCEPT !.createFolderCalls = Append(@, runs[r].currentPath),
                           !.pc = "awaitCreateFolder"]]
    /\ UNCHANGED <<settings, activeFile, editor, folders, files, createLog, link, route>>

(* Line 194: createFolder takes effect. It throws when the path exists by   *)
(* now; otherwise the folder is there and the loop goes on.                 *)
CreateFolderReturn(r) ==
    /\ runs[r].pc = "awaitCreateFolder"
    /\ IF Exists(runs[r].currentPath)
       THEN /\ runs' = [runs EXCEPT ![r] = CatchError(@, "FolderAlreadyExists")]
            /\ UNCHANGED folders
       ELSE /\ folders' = folders \cup {runs[r].currentPath}
            /\ runs' = [runs EXCEPT ![r] =
                    NextSegment([@ EXCEPT !.createFolderDone =
                                     @ \cup {runs[r].currentPath}])]
    /\ UNCHANGED <<settings, activeFile, editor, files, createLog, link, route>>

\* Line 194: the storage rejects createFolder for a reason of its own.
CreateFolderFails(r) ==
    /\ runs[r].pc = "awaitCreateFolder"
    /\ runs' = [runs EXCEPT ![r] = CatchError(@, "FilesystemFailure")]
    /\ UNCHANGED <<settings, activeFile, editor, folders, files, createLog, link, route>>

\* a variant of lines 85-93 that replaces the selection before and after line 90
LinkAndReplaceTwice(rec) ==
    LET linked == createSmartLink(rec.selectedText, rec.definition.term)
    IN IF linked.threw
       THEN CatchError(rec, "LinkThrew")
       ELSE [rec EXCEPT !.replaceCalls =
                            @ \o <<[text |-> linked.value, over |-> editor],
                                   [text |-> ReplaceDefinition(linked.value),
                                    over |-> <<>>]>>,
                        !.notices = Append(@, NoticeSuccess),
                        !.pc = "done", !.outcome = "Done"]

\* a variant of lines 85-97 that puts the selected text back when linking throws
LinkAndReplaceLeaks(rec) ==
    LET linked == createSmartLink(rec.selectedText, rec.definition.term)
    IN IF linked.threw
       THEN CatchError([rec EXCEPT !.replaceCalls =
                            Append(@, [text |-> rec.selectedText, over |-> editor])],
                       "LinkThrew")
       ELSE [rec EXCEPT !.replaceCalls =
                            Append(@, [text |-> ReplaceDefinition(linked.value),
                                       over |-> editor]),
                        !.notices = Append(@, NoticeSuccess),
                        !.pc = "done", !.outcome = "Done"]

\* Lines 85-93: after the note is written: link, replace the selection, notify.
LinkAndReplace(rec) ==
    LET linked == createSmartLink(rec.selectedText, rec.definition.term)
    IN IF linked.threw
       THEN CatchError(rec, "LinkThrew")
       ELSE [rec EXCEPT !.replaceCalls =
                            Append(@, [text |-> ReplaceDefinition(linked.value),
                                       over |-> editor]),
                        !.notices = Append(@, NoticeSuccess),
                        !.pc = "done", !.outcome = "Done"]

\* a variant of line 167 that writes over the file that is there
VaultCreateOverwrites(path, content) ==
    IF ParentOf(path) \notin folders
    THEN [ok |-> FALSE, failure |-> "FilesystemFailure", files |-> files]
    ELSE [ok |-> TRUE, failure |-> "",
          files |-> {f \in files : f.path # path}
                    \cup {[path |-> path, content |-> content]}]

\* a variant of line 167 that writes under another name when the path is taken
VaultCreateRenames(path, content) ==
    IF ParentOf(path) \notin folders
    THEN [ok |-> FALSE, failure |-> "FilesystemFailure", files |-> files]
    ELSE [ok |-> TRUE, failure |-> "",
          files |-> files \cup
              {[path |-> IF path \in FilePaths THEN path \o <<" ", "1">> ELSE path,
                content |-> content]}]

(* Line 167: vault.create(path, content). It throws when a file is at the   *)
(* path already, and when the folder of the path is missing; otherwise the  *)
(* file is there afterwards.                                                *)
VaultCreate(path, content) ==
    IF path \in FilePaths
    THEN [ok |-> FALSE, failure |-> "NoteAlreadyExists", files |-> files]
    ELSE IF ParentOf(path) \notin folders
    THEN [ok |-> FALSE, failure |-> "FilesystemFailure", files |-> files]
    ELSE [ok |-> TRUE, failure |-> "",
          files |-> files \cup {[path |-> path, content |-> content]}]

(* Line 167 and lines 84-97: vault.create takes effect. When it throws, the *)
(* catch of line 94 ends the invocation; otherwise the invocation runs on   *)
(* to its end: link, replace, notify.                                       *)
CreateReturn(r) ==
    /\ runs[r].pc = "awaitCreate"
    /\ LET rec == runs[r]
           made == VaultCreate(rec.notePath, rec.noteContent)
           after == IF made.ok
                    THEN LinkAndReplace([rec EXCEPT !.created = TRUE])
                    ELSE CatchError(rec, made.failure)
       IN /\ files' = made.files
          /\ createLog' = Append(createLog,
                 [run |-> r, path |-> rec.notePath, ok |-> made.ok])
          /\ runs' = [runs EXCEPT ![r] = after]
          /\ editor' = IF after.outcome = "Done" THEN <<>> ELSE editor
    /\ UNCHANGED <<settings, activeFile, folders, link, route>>

\* Line 167: the storage rejects vault.create for a reason of its own.
CreateFails(r) ==
    /\ runs[r].pc = "awaitCreate"
    /\ runs[r].notePath \notin FilePaths
    /\ runs' = [runs EXCEPT ![r] = CatchError(@, "FilesystemFailure")]
    /\ createLog' = Append(createLog,
           [run |-> r, path |-> runs[r].notePath, ok |-> FALSE])
    /\ UNCHANGED <<settings, activeFile, editor, folders, files, link, route>>

\* the user selects another text in the editor
UserSelect ==
    /\ \E text \in Selections \ {editor} : editor' = text
    /\ UNCHANGED <<settings, activeFile, folders, files, runs, createLog, link, route>>

LinkIdle ==
    [originalText |-> <<>>, term |-> <<>>, applied |-> FALSE,
     result |-> [threw |-> FALSE, value |-> <<>>]]
RouteIdle == [sourceFile |-> {}, applied |-> FALSE, result |-> <<>>]

Init ==
    /\ settings \in LoadedSettings
    /\ activeFile \in ActiveFiles
    /\ editor \in Selections
    /\ \E v \in InitialVaults : folders = v.folders /\ files = v.files
    /\ runs = [r \in Runs |-> IdleRun]
    /\ createLog = <<>>
    /\ link = LinkIdle
    /\ route = RouteIdle

Next ==
    \/ \E r \in Runs : Invoke(r)
    \/ \E r \in Runs : LLMResponse(r)
    \/ \E r \in Runs : ExistsReturn(r)
    \/ \E r \in Runs : CreateFolderReturn(r)
    \/ \E r \in Runs : CreateFolderFails(r)
    \/ \E r \in Runs : CreateReturn(r)
    \/ \E r \in Runs : CreateFails(r)
    \/ UserSelect

Spec == Init /\ [][Next]_vars

(***************************************************************************)
(* createSmartLink on its own, for every text and term over a small         *)
(* alphabet: two cases of a letter, a metacharacter and a space.            *)
(***************************************************************************)
LinkAlphabet == {"c", "C", "+", " "}

InitLink ==
    /\ settings = DEFAULT_SETTINGS
    /\ activeFile = {}
    /\ editor = <<>>
    /\ folders = {Root}
    /\ files = {}
    /\ runs = [r \in Runs |-> IdleRun]
    /\ createLog = <<>>
    /\ route = RouteIdle
    /\ \E text \in SeqsUpTo(LinkAlphabet, MaxTextLen),
          term \in SeqsUpTo(LinkAlphabet, MaxTermLen) :
            link = [LinkIdle EXCEPT !.originalText = text, !.term = term]

\* createSmartLink(originalText, term) is called
ApplySmartLink ==
    /\ ~link.applied
    /\ link' = [link EXCEPT !.applied = TRUE,
                            !.result = createSmartLink(link.originalText, Str(link.term))]
    /\ UNCHANGED <<settings, activeFile, editor, folders, files, runs, createLog, route>>

NextLink == ApplySmartLink

SpecLink == InitLink /\ [][NextLink]_vars

(***************************************************************************)
(* The settings tab (main.ts 258-319) and getTargetFolder on its own.       *)
(***************************************************************************)
RoutePaths == {<<>>, <<"P">>, <<"P","/","N">>, <<"T">>}

RouteFiles ==
    {{},
     {[path |-> <<"P","/","N","/","a">>, basename |-> <<"a">>]},
     {[path |-> <<"P","/","b">>, basename |-> <<"b">>]},
     {[path |-> <<"O","/","b">>, basename |-> <<"b">>]}}

\* lines 311-318: Add Mapping
AddMapping ==
    /\ Len(settings.folderMappings) < MaxMappings
    /\ settings' = [settings EXCEPT !.folderMappings =
                        Append(@, [sourcePath |-> <<>>, targetPath |-> <<>>])]
    /\ route' = RouteIdle
    /\ UNCHANGED <<activeFile, editor, folders, files, runs, createLog, link>>

\* lines 283-288: the source path of a mapping is edited
EditSourcePath ==
    /\ \E index \in 1..Len(settings.folderMappings), value \in RoutePaths :
        /\ settings.folderMappings[index].sourcePath # value
        /\ settings' = [settings EXCEPT !.folderMappings[index].sourcePath = value]
    /\ route' = RouteIdle
    /\ UNCHANGED <<activeFile, editor, folders, files, runs, createLog, link>>

\* lines 294-299: the target path of a mapping is edited
EditTargetPathFrom(values) ==
    /\ \E index \in 1..Len(settings.folderMappings), value \in values :
        /\ settings.folderMappings[index].targetPath # value
        /\ settings' = [settings EXCEPT !.folderMappings[index].targetPath = value]
    /\ route' = RouteIdle
    /\ UNCHANGED <<activeFile, editor, folders, files, runs, createLog, link>>

EditTargetPath == EditTargetPathFrom(RoutePaths)

\* lines 302-306: Remove, folderMappings.splice(index, 1)
RemoveMapping ==
    /\ \E index \in 1..Len(settings.folderMappings) :
        settings' = [settings EXCEPT !.folderMappings =
                        SubSeq(@, 1, index - 1) \o SubSeq(@, index + 1, Len(@))]
    /\ route' = RouteIdle
    /\ UNCHANGED <<activeFile, editor, folders, files, runs, createLog, link>>

\* lines 265-268: the default glossary path is edited
EditDefaultGlossaryPathFrom(values) ==
    /\ \E value \in values :
        /\ settings.defaultGlossaryPath # value
        /\ settings' = [settings EXCEPT !.defaultGlossaryPath = value]
    /\ route' = RouteIdle
    /\ UNCHANGED <<activeFile, editor, folders, files, runs, createLog, link>>

EditDefaultGlossaryPath == EditDefaultGlossaryPathFrom(RoutePaths \cup {Glossary})

\* getTargetFolder is called under the current settings
Resolve ==
    /\ \E sourceFile \in RouteFiles :
        route' = [sourceFile |-> sourceFile, applied |-> TRUE,
                  result |-> getTargetFolder(sourceFile)]
    /\ UNCHANGED <<settings, activeFile, editor, folders, files, runs, createLog, link>>

InitRoute ==
    /\ settings = DEFAULT_SETTINGS
    /\ activeFile = {}
    /\ editor = <<>>
    /\ folders = {Root}
    /\ files = {}
    /\ runs = [r \in Runs |-> IdleRun]
    /\ createLog = <<>>
    /\ link = LinkIdle
    /\ route = RouteIdle

NextRoute ==
    \/ AddMapping
    \/ EditSourcePath
    \/ EditTargetPath
    \/ RemoveMapping
    \/ EditDefaultGlossaryPath
    \/ Resolve

SpecRoute == InitRoute /\ [][NextRoute]_vars

(***************************************************************************)
(* One invocation at a time: the command is invoked only while no other     *)
(* invocation is under way, and the user selects text in between them. The  *)
(* inputs are wider than in Spec: a selection that holds "[object Object]", *)
(* a term with a slash, a target folder of three segments, and vaults in    *)
(* which a part of the folder chain exists.                                 *)
(***************************************************************************)
TextObject == ObjectObject \o <<" ","G","P","U">>
SeqSelections == Selections \cup {TextObject}

TermSlash == <<"s","/","x">>
SeqResponses ==
    {[kind |-> "reject", value |-> ParsedObject(Undefined, Undefined)]}
    \cup {[kind |-> "object", value |-> v] : v \in
            {ParsedObject(Undefined, Undefined),
             ParsedObject(Str(TermGpu), Str(DefOne)),
             ParsedObject(Str(TermGpu), Str(DefTwo)),
             ParsedObject(Str(TermCpu), Str(DefOne)),
             ParsedObject(Str(TermSlash), Str(DefOne))}}

PathA == <<"A">>
PathABC == PathAB \o <<"/","C">>
DeepSettings ==
    [folderMappings |-> <<[sourcePath |-> <<"P">>, targetPath |-> PathABC]>>,
     defaultGlossaryPath |-> Glossary]
SeqSettings == {DEFAULT_SETTINGS, DeepSettings}

GlossarySub == Glossary \o <<"/","s">>
SeqVaults ==
    InitialVaults
    \cup {[folders |-> {Root, PathA}, files |-> {}],
          [folders |-> {Root, Glossary, GlossarySub}, files |-> {}]}

InitSeq ==
    /\ settings \in SeqSettings
    /\ activeFile \in ActiveFiles
    /\ editor \in SeqSelections
    /\ \E v \in SeqVaults : folders = v.folders /\ files = v.files
    /\ runs = [r \in Runs |-> IdleRun]
    /\ createLog = <<>>
    /\ link = LinkIdle
    /\ route = RouteIdle

\* the command is invoked while no other invocation is under way
InvokeAlone(r) ==
    /\ \A o \in Runs \ {r} : runs[o].pc \in {"idle", "done"}
    /\ Invoke(r)

LLMResponseSeq(r) == LLMResponseFrom(r, SeqResponses)

\* the user selects another text in the editor, between two invocations
UserSelectSeq ==
    /\ \A r \in Runs : runs[r].pc \in {"idle", "done"}
    /\ \E text \in SeqSelections \ {editor} : editor' = text
    /\ UNCHANGED <<settings, activeFile, folders, files, runs, createLog, link, route>>

NextSeq ==
    \/ \E r \in Runs : InvokeAlone(r)
    \/ \E r \in Runs : LLMResponseSeq(r)
    \/ \E r \in Runs : ExistsReturn(r)
    \/ \E r \in Runs : CreateFolderReturn(r)
    \/ \E r \in Runs : CreateFolderFails(r)
    \/ \E r \in Runs : CreateReturn(r)
    \/ \E r \in Runs : CreateFails(r)
    \/ UserSelectSeq

SpecSeq == InitSeq /\ [][NextSeq]_vars

(***************************************************************************)
(* One invocation with the user at work while it is under way: the user     *)
(* opens another document, closes the document, and edits the target path   *)
(* of a mapping and the default glossary path in the settings tab.          *)
(***************************************************************************)
UserRuns == {1}

UserResponses ==
    {[kind |-> "reject", value |-> ParsedObject(Undefined, Undefined)],
     [kind |-> "object", value |-> ParsedObject(Str(TermGpu), Str(DefOne))]}

InitUser ==
    /\ settings \in LoadedSettings
    /\ activeFile \in ActiveFiles
    /\ editor = TextGPU
    /\ folders = {Root}
    /\ files = {}
    /\ runs = [r \in Runs |-> IdleRun]
    /\ createLog = <<>>
    /\ link = LinkIdle
    /\ route = RouteIdle

LLMResponseUser(r) == LLMResponseFrom(r, UserResponses)

\* the path the user types into a settings field
UserPaths == {<<"T">>}

EditTargetPathUser == EditTargetPathFrom(UserPaths)

EditDefaultGlossaryPathUser == EditDefaultGlossaryPathFrom(UserPaths)

\* the user opens another document, or closes the one that is open
SwitchActiveFile ==
    /\ \E file \in ActiveFiles \ {activeFile} : activeFile' = file
    /\ UNCHANGED <<settings, editor, folders, files, runs, createLog, link, route>>

NextUser ==
    \/ \E r \in UserRuns : Invoke(r)
    \/ \E r \in UserRuns : LLMResponseUser(r)
    \/ \E r \in UserRuns : ExistsReturn(r)
    \/ \E r \in UserRuns : CreateFolderReturn(r)
    \/ \E r \in UserRuns : CreateFolderFails(r)
    \/ \E r \in UserRuns : CreateReturn(r)
    \/ \E r \in UserRuns : CreateFails(r)
    \/ SwitchActiveFile
    \/ EditTargetPathUser
    \/ EditDefaultGlossaryPathUser

SpecUser == InitUser /\ [][NextUser]_vars

(***************************************************************************)
(* Properties of the pipeline (specification Spec).                         *)
(***************************************************************************)
\* the run has the response, and it is not an object with a non-empty term
\* and a non-empty definition
Malformed(rec) ==
    /\ rec.response # ""
    /\ rec.response # "reject"
    /\ (rec.response = "object" => ~WellFormed(rec.definition))

\* the run changed nothing in the vault and did not replace the selection
NoMutation(rec) ==
    /\ rec.createFolderDone = {}
    /\ ~rec.created
    /\ rec.replaceCalls = <<>>

(* C1: a run whose payload is not valid JSON, or decodes to a value whose   *)
(* term or definition is missing or empty, creates no folder and no note    *)
(* and does not replace the selection.                                      *)
C1_MalformedAbortsBeforeMutation ==
    \A r \in Runs : Malformed(runs[r]) => NoMutation(runs[r])

(* C2: a run that read an empty selection at entry is over at once, and it  *)
(* has made no request, no call of createFolder or vault.create, and no     *)
(* call of replaceSelection.                                                *)
C2_EmptySelectionAbortsAtStart ==
    \A r \in Runs :
        (runs[r].pc # "idle" /\ runs[r].selectedText = <<>>) =>
            /\ runs[r].pc = "done"
            /\ runs[r].outcome = "EmptySelection"
            /\ runs[r].httpCalls = 0
            /\ runs[r].createFolderCalls = <<>>
            /\ runs[r].createCalls = 0
            /\ NoMutation(runs[r])

\* C2's case: a run ended on an empty selection while the other run wrote a note
C2_Witness ==
    \E r, o \in Runs :
        /\ runs[r].outcome = "EmptySelection"
        /\ runs[o].outcome = "Done"

\* the run is one of C3: a selection, a well-formed response, and no failure
\* of the storage (a path that is taken counts as one)
CleanRun(rec) ==
    /\ rec.pc = "done"
    /\ rec.selectedText # <<>>
    /\ rec.response = "object"
    /\ WellFormed(rec.definition)
    /\ rec.failure \notin {"NoteAlreadyExists", "FilesystemFailure",
                           "FolderAlreadyExists"}

(* C3: a run with a non-empty selection and a well-formed response that met *)
(* no existing note and no storage failure ends in Done, with exactly one   *)
(* success notice, one vault.create, which succeeded and whose file is in   *)
(* the vault, and one replaceSelection.                                     *)
C3_CleanRunDoneOnce ==
    \A r \in Runs :
        CleanRun(runs[r]) =>
            /\ runs[r].outcome = "Done"
            /\ runs[r].notices = <<NoticeSuccess>>
            /\ runs[r].createCalls = 1
            /\ runs[r].created
            /\ [path |-> runs[r].notePath, content |-> runs[r].noteContent] \in files
            /\ Len(runs[r].replaceCalls) = 1

\* C3's case: a clean run ended after creating both folders of "A/B"
C3_Witness ==
    \E r \in Runs :
        /\ CleanRun(runs[r])
        /\ runs[r].createFolderDone = {<<"A">>, PathAB}
        /\ runs[r].outcome = "Done"

(* C4: an invocation has issued no notice while it is under way and exactly *)
(* one when it is over, whatever its outcome.                               *)
C4_ExactlyOneNotice ==
    \A r \in Runs :
        Len(runs[r].notices) = IF runs[r].pc = "done" THEN 1 ELSE 0

\* C4's case: one run ended with no definition, the other in the catch of line 94
C4_Witness ==
    \E r, o \in Runs :
        /\ runs[r].outcome = "NoDefinition" /\ runs[r].response = "invalid"
        /\ runs[o].outcome = "Error" /\ runs[o].failure = "LinkThrew"

(* C7: the step of a run whose vault.create finds a file at its path leaves *)
(* every file as it is and adds none, does not touch the selection, and     *)
(* ends the run with NoteAlreadyExists and no call of replaceSelection.     *)
C7_ExistingNoteNotOverwritten ==
    [][\A r \in Runs :
        (/\ runs[r].pc = "awaitCreate"
         /\ runs[r].notePath \in FilePaths
         /\ runs'[r] # runs[r]) =>
            /\ files' = files
            /\ editor' = editor
            /\ runs'[r].pc = "done"
            /\ runs'[r].outcome = "Error"
            /\ runs'[r].failure = "NoteAlreadyExists"
            /\ ~runs'[r].created
            /\ runs'[r].replaceCalls = <<>>]_vars

\* C7's case: a run failed on the note that was in the vault from the start
C7_Witness ==
    \E r \in Runs :
        /\ runs[r].failure = "NoteAlreadyExists"
        /\ runs[r].notePath = NotePathOf(Glossary, Str(TermGpu))
        /\ [path |-> runs[r].notePath, content |-> OldContent] \in files

(* C10: when two runs call vault.create for one path and the first call     *)
(* succeeds, the path holds one file, with the content of the first caller, *)
(* and the later caller ends with NoteAlreadyExists, has created no note    *)
(* and has not replaced its selection.                                      *)
C10_SameTermRace ==
    \A i, j \in 1..Len(createLog) :
        (/\ i < j
         /\ createLog[i].path = createLog[j].path
         /\ createLog[i].ok) =>
            LET first == runs[createLog[i].run]
                later == runs[createLog[j].run]
            IN /\ {f \in files : f.path = createLog[i].path}
                      = {[path |-> first.notePath, content |-> first.noteContent]}
               /\ ~createLog[j].ok
               /\ later.pc = "done"
               /\ later.failure = "NoteAlreadyExists"
               /\ ~later.created
               /\ later.replaceCalls = <<>>

(* C10's case: the two runs were under way together (each created one of    *)
(* the folders of "A/B"), wrote different contents to the same path, and    *)
(* the second call failed.                                                  *)
C10_Witness ==
    /\ Len(createLog) = 2
    /\ createLog[1].path = createLog[2].path
    /\ createLog[1].ok
    /\ createLog[1].run # createLog[2].run
    /\ \A r \in Runs : runs[r].createFolderDone # {}
    /\ runs[1].noteContent # runs[2].noteContent

(***************************************************************************)
(* Properties of getTargetFolder (specification SpecRoute).                 *)
(***************************************************************************)
\* the mappings whose sourcePath is a prefix of the path, by position
MatchingMappings(path) ==
    {i \in 1..Len(settings.folderMappings) :
        /\ Len(settings.folderMappings[i].sourcePath) <= Len(path)
        /\ SubSeq(path, 1, Len(settings.folderMappings[i].sourcePath))
               = settings.folderMappings[i].sourcePath}

(* C5: getTargetFolder returns defaultGlossaryPath for no active document;  *)
(* otherwise the targetPath of the matching mapping that comes first in the *)
(* list, and defaultGlossaryPath when no mapping matches.                   *)
C5_FirstMatchingMappingWins ==
    route.applied =>
        IF route.sourceFile = {}
        THEN route.result = settings.defaultGlossaryPath
        ELSE LET path == (CHOOSE f \in route.sourceFile : TRUE).path
                 matching == MatchingMappings(path)
             IN IF matching = {}
                THEN route.result = settings.defaultGlossaryPath
                ELSE \E i \in matching :
                        /\ \A j \in matching : i <= j
                        /\ route.result = settings.folderMappings[i].targetPath

(* C5's case: two mappings match the document, their targets differ from    *)
(* each other and from the default, and the first one's target is returned. *)
C5_Witness ==
    /\ route.applied
    /\ route.sourceFile # {}
    /\ Len(settings.folderMappings) = 2
    /\ MatchingMappings((CHOOSE f \in route.sourceFile : TRUE).path) = {1, 2}
    /\ settings.folderMappings[1].targetPath # settings.folderMappings[2].targetPath
    /\ settings.folderMappings[1].targetPath # settings.defaultGlossaryPath
    /\ route.result = settings.folderMappings[1].targetPath

(* C6: after any sequence of settings operations from the default settings, *)
(* getTargetFolder does not return an empty path.                           *)
C6_ResolutionNeverEmpty ==
    route.applied => route.result # <<>>

(***************************************************************************)
(* Properties of createSmartLink (specification SpecLink).                  *)
(***************************************************************************)
\* the term stands at position s of the text, in any casing
OccursAt(text, term, s) ==
    /\ s + Len(term) - 1 <= Len(text)
    /\ \A k \in 1..Len(term) : Canonicalize(text[s + k - 1]) = Canonicalize(term[k])

\* the places where the term stands in the text as a whole word: no word
\* character right before it and none right after it
WholeWordOccurrences(text, term) ==
    {s \in 1..Len(text) :
        /\ OccursAt(text, term, s)
        /\ (s = 1 \/ ~IsWordChar(text[s - 1]))
        /\ (s + Len(term) > Len(text) \/ ~IsWordChar(text[s + Len(term)]))}

\* the places where the term stands between spaces or the ends of the text
DelimitedOccurrences(text, term) ==
    {s \in 1..Len(text) :
        /\ OccursAt(text, term, s)
        /\ (s = 1 \/ text[s - 1] = " ")
        /\ (s + Len(term) > Len(text) \/ text[s + Len(term)] = " ")}

\* the text with the term at position s made a link labelled with what stands there
LinkedAt(text, term, s) ==
    SubSeq(text, 1, s - 1)
    \o <<"[", "[">> \o term \o <<"|">>
    \o SubSeq(text, s, s + Len(term) - 1) \o <<"]", "]">>
    \o SubSeq(text, s + Len(term), Len(text))

(* C8: for every text and every (non-empty) term, createSmartLink returns   *)
(* the text with the first whole-word occurrence of the term, in any        *)
(* casing, made [[term|matched text]] and nothing else changed, and the     *)
(* text itself when the term does not occur as a whole word; it does not    *)
(* throw.                                                                   *)
C8_FirstWholeWordOccurrenceLinked ==
    (link.applied /\ link.term # <<>>) =>
        LET occ == WholeWordOccurrences(link.originalText, link.term)
        IN /\ ~link.result.threw
           /\ IF occ = {}
              THEN link.result.value = link.originalText
              ELSE \E s \in occ :
                      /\ \A t \in occ : s <= t
                      /\ link.result.value
                             = LinkedAt(link.originalText, link.term, s)

(* C9: a term that contains a regular-expression metacharacter is matched   *)
(* literally: a text in which it stands between spaces or the ends of the   *)
(* text is linked there, and a text in which the literal term does not      *)
(* stand at all is returned as it is.                                       *)
C9_MetacharTermMatchedLiterally ==
    (link.applied /\ \E k \in 1..Len(link.term) : link.term[k] \in RegExpMetaChars) =>
        LET delimited == DelimitedOccurrences(link.originalText, link.term)
        IN /\ ~link.result.threw
           /\ (delimited # {} =>
                 \E s \in delimited :
                    link.result.value = LinkedAt(link.originalText, link.term, s))
           /\ ((\A s \in 1..Len(link.originalText) :
                    ~OccursAt(link.originalText, link.term, s)) =>
                 link.result.value = link.originalText)

(***************************************************************************)
(* Properties of successive and lone invocations (specification SpecSeq).   *)
(***************************************************************************)
\* the file was in the vault before any invocation
PreExisting(path) == [path |-> path, content |-> OldContent] \in files

\* the run had a selection and a well-formed response
WellFormedRun(rec) ==
    /\ rec.selectedText # <<>>
    /\ rec.response = "object"
    /\ WellFormed(rec.definition)

(* C11: of two successive runs into one folder, the first of which wrote    *)
(* its note, and with no other conflict for the second (its path was free   *)
(* at the start, the storage did not fail): when the terms differ both     *)
(* runs end in Done and the vault holds both notes, under different paths;  *)
(* when the terms are the same the second run ends with NoteAlreadyExists   *)
(* and writes nothing.                                                      *)
C11_SuccessiveRuns ==
    \A i, j \in 1..Len(createLog) :
        LET first == runs[createLog[i].run]
            second == runs[createLog[j].run]
        IN (/\ i < j
            /\ createLog[i].run # createLog[j].run
            /\ createLog[i].ok
            /\ WellFormedRun(first) /\ WellFormedRun(second)
            /\ first.targetFolder = second.targetFolder
            /\ ~PreExisting(second.notePath)
            /\ second.failure # "FilesystemFailure") =>
               IF first.definition.term # second.definition.term
               THEN /\ first.outcome = "Done" /\ second.outcome = "Done"
                    /\ first.notePath # second.notePath
                    /\ [path |-> first.notePath, content |-> first.noteContent]
                           \in files
                    /\ [path |-> second.notePath, content |-> second.noteContent]
                           \in files
               ELSE /\ second.outcome = "Error"
                    /\ second.failure = "NoteAlreadyExists"
                    /\ ~second.created
                    /\ {f \in files : f.path = second.notePath}
                           = {[path |-> first.notePath, content |-> first.noteContent]}

\* C11's case: two successive runs with different terms, both notes written
C11_Witness ==
    /\ Len(createLog) = 2
    /\ createLog[1].run # createLog[2].run
    /\ createLog[1].ok /\ createLog[2].ok
    /\ \A r \in Runs : WellFormedRun(runs[r]) /\ runs[r].outcome = "Done"
    /\ runs[1].definition.term # runs[2].definition.term
    /\ runs[1].targetFolder = runs[2].targetFolder

\* the first k segments of a folder path, joined by slashes
RECURSIVE PrefixAt(_, _)
PrefixAt(segs, k) ==
    IF k <= 1 THEN segs[1] ELSE PrefixAt(segs, k - 1) \o <<"/">> \o segs[k]

\* the run is through the loop of ensureFolderExists
FoldersEnsured(rec) == rec.createCalls = 1

(* C13: a run on its own calls createFolder for prefixes of its folder path *)
(* only, from left to right; when exists answers, it calls createFolder     *)
(* exactly if the prefix is not there; an existing folder never fails the   *)
(* run; and when the note is about to be written every prefix exists and    *)
(* every createFolder call has succeeded.                                   *)
C13_FolderChainInOrder ==
    /\ [](\A r \in Runs :
            LET rec == runs[r]
                calls == rec.createFolderCalls
            IN /\ \A c \in 1..Len(calls) :
                    /\ \E k \in 1..Len(rec.segs) : calls[c] = PrefixAt(rec.segs, k)
                    /\ \A d \in 1..Len(calls) : c < d => Len(calls[c]) < Len(calls[d])
               /\ rec.failure # "FolderAlreadyExists"
               /\ FoldersEnsured(rec) =>
                    /\ \A k \in 1..Len(rec.segs) : Exists(PrefixAt(rec.segs, k))
                    /\ rec.createFolderDone = {calls[c] : c \in 1..Len(calls)})
    /\ [][\A r \in Runs :
            (runs[r].pc = "awaitExists" /\ runs'[r] # runs[r]) =>
                IF Exists(runs[r].currentPath)
                THEN runs'[r].createFolderCalls = runs[r].createFolderCalls
                ELSE /\ runs'[r].pc = "awaitCreateFolder"
                     /\ runs'[r].createFolderCalls
                            = Append(runs[r].createFolderCalls, runs[r].currentPath)]_vars

\* C13's case: none of A, A/B, A/B/C existed, and the run created them in this
\* order before it wrote its note
C13_Witness ==
    \E r \in Runs :
        /\ runs[r].targetFolder = PathABC
        /\ runs[r].createFolderCalls = <<PathA, PathAB, PathABC>>
        /\ runs[r].created

(* C15: in every successful run the string passed to replaceSelection is    *)
(* what createSmartLink returns for the text read at entry and the term.    *)
C15_ReplacementIsSmartLink ==
    \A r \in Runs :
        runs[r].outcome = "Done" =>
            /\ Len(runs[r].replaceCalls) = 1
            /\ runs[r].replaceCalls[1].text
                   = createSmartLink(runs[r].selectedText,
                                     runs[r].definition.term).value

(* C20: every note a run creates lies directly in the folder the run got    *)
(* from getTargetFolder.                                                    *)
C20_NoteIsChildOfTargetFolder ==
    \A r \in Runs :
        runs[r].created => ParentOf(runs[r].notePath) = runs[r].targetFolder

(***************************************************************************)
(* Further properties of the pipeline (specification Spec).                 *)
(***************************************************************************)
(* C12: a run makes at most one request and at most one call of             *)
(* vault.create, calls createFolder and vault.create only once it has an    *)
(* object from the response, and calls replaceSelection at most once and    *)
(* only after its own note was created.                                     *)
C12_StepsInOrderOnce ==
    \A r \in Runs :
        /\ runs[r].httpCalls <= 1
        /\ runs[r].createCalls <= 1
        /\ (runs[r].createFolderCalls # <<>> \/ runs[r].createCalls > 0
            \/ runs[r].created) =>
                (runs[r].httpCalls = 1 /\ runs[r].response = "object")
        /\ runs[r].created => runs[r].createCalls = 1
        /\ Len(runs[r].replaceCalls) <= 1
        /\ runs[r].replaceCalls # <<>> =>
                (runs[r].created
                 /\ [path |-> runs[r].notePath, content |-> runs[r].noteContent]
                        \in files)

\* C12's case: a run went through every step: request, two folders, note, replace
C12_Witness ==
    \E r \in Runs :
        /\ runs[r].httpCalls = 1
        /\ Len(runs[r].createFolderCalls) = 2
        /\ runs[r].created
        /\ Len(runs[r].replaceCalls) = 1

\* the run ended without success
Aborted(rec) ==
    rec.pc = "done" /\ rec.outcome \in {"EmptySelection", "NoDefinition", "Error"}

(* C14: after a run has aborted, the folders and the note it created are    *)
(* still in the vault, and it has not called replaceSelection.              *)
C14_NoRollbackNoLeak ==
    \A r \in Runs :
        Aborted(runs[r]) =>
            /\ runs[r].createFolderDone \subseteq folders
            /\ runs[r].created =>
                  [path |-> runs[r].notePath, content |-> runs[r].noteContent]
                      \in files
            /\ runs[r].replaceCalls = <<>>

\* C14's case: linking threw after the run had created a folder and its note
C14_Witness ==
    \E r \in Runs :
        /\ Aborted(runs[r])
        /\ runs[r].failure = "LinkThrew"
        /\ runs[r].createFolderDone # {}
        /\ runs[r].created

(* C18: no run ends because createFolder met a folder that was there: no    *)
(* run fails with "Folder already exists".                                  *)
C18_NoFolderRace ==
    \A r \in Runs : runs[r].failure # "FolderAlreadyExists"

(* C19: every call of replaceSelection replaces the selection the run read  *)
(* at its entry.                                                            *)
C19_ReplacesWhatItRead ==
    \A r \in Runs :
        \A c \in 1..Len(runs[r].replaceCalls) :
            runs[r].replaceCalls[c].over = runs[r].selectedText

(***************************************************************************)
(* Properties of an invocation with the user at work (specification         *)
(* SpecUser).                                                               *)
(***************************************************************************)
(* C16: the folder a run resolves is the folder of the document that was    *)
(* active when the command was invoked (under the settings the run read),   *)
(* and the note's Source line names that document.                          *)
C16_FolderAndSourceOfEntryDocument ==
    \A r \in Runs :
        runs[r].response = "object" =>
            /\ runs[r].targetFolder
                   = TargetFolderUnder(runs[r].readSettings, runs[r].entryActiveFile)
            /\ runs[r].created =>
                   runs[r].noteContent
                       = NoteContentOf(runs[r].definition, runs[r].entryActiveFile)

(* C17: the folder a run resolves is the folder under the settings as they  *)
(* were when the run started (for the document the run read).               *)
C17_FolderUnderEntrySettings ==
    \A r \in Runs :
        runs[r].response = "object" =>
            runs[r].targetFolder
                = TargetFolderUnder(runs[r].entrySettings, runs[r].activeFile)

====
